---- MODULE Spec2Model ----
(***************************************************************************)
(* ScreenQnA: the capture -> recognize -> extract -> answer pipeline.      *)
(*                                                                         *)
(*   LoopSpec  the continuous orchestrator, main() of screen_qna.py        *)
(*   AskSpec   the three answer clients (query_openai x2, ask_ai)          *)
(*   SelSpec   one invocation of select_region (GUI and snap variants)     *)
(*   GuiSpec   the GUI: triggers, background workers, the Tk event queue   *)
(*                                                                         *)
(* Text is a sequence of one-character strings.                            *)
(***************************************************************************)
EXTENDS Integers, Sequences, FiniteSets, TLC

VARIABLES
    \* continuous orchestrator (screen_qna.py main)
    pc, once, cycle, text, queue, cur, seen, sent, crashCause,
    \* answer client
    askPc, askClient, apiKey, lib, prompt, requests, askResult, calls,
    \* region selector
    overlay, grab, selRoot, sel, rect_id, liveRect, selPc, selResult, variant,
    evPress, evRelease, evEscape, nTerminal, emitted,
    \* GUI
    uiPc, button, uiQueue, workers, started, nTriggers,
    answerBox, clipboard, dialog, cancelled,
    \* snap orchestrator (screen_qna_snap.py main)
    snapPc, snapArgs, snapText, snapLog, shots,
    \* a pure text function under check: its inputs, its result
    fIn, fArg, fOut, fPc

loopVars == <<pc, once, cycle, text, queue, cur, seen, sent, crashCause>>
askVars  == <<askPc, askClient, apiKey, lib, prompt, requests, askResult, calls>>
selVars  == <<overlay, grab, selRoot, sel, rect_id, liveRect, selPc, selResult, variant,
              evPress, evRelease, evEscape, nTerminal, emitted>>
guiVars  == <<uiPc, button, uiQueue, workers, started, nTriggers,
              answerBox, clipboard, dialog, cancelled>>
snapVars == <<snapPc, snapArgs, snapText, snapLog, shots>>
fnVars   == <<fIn, fArg, fOut, fPc>>
vars     == <<loopVars, askVars, selVars, guiVars, snapVars, fnVars>>

None == "None"

(***************************************************************************)
(* Bounds                                                                  *)
(***************************************************************************)
MaxCycles == 2      \* polling cycles of one run of the continuous loop
MaxCalls == 2       \* calls of an answer client in AskSpec
MaxCoord == 2       \* pointer coordinates range over 0..MaxCoord
MaxPresses == 2     \* pointer-press events delivered to one selection
MaxTriggers == 2    \* user triggers (button click / Ctrl+S) in GuiSpec

(***************************************************************************)
(* Characters and text helpers                                             *)
(***************************************************************************)
IsUpper(c) == c \in {"W", "A"}            \* [A-Z]
IsSpace(c) == c \in {" ", "\n"}           \* what str.strip() removes

RECURSIVE LStrip(_)
LStrip(s) == IF s # <<>> /\ IsSpace(Head(s)) THEN LStrip(Tail(s)) ELSE s

RECURSIVE RStrip(_)
RStrip(s) ==
    IF s # <<>> /\ IsSpace(s[Len(s)]) THEN RStrip(SubSeq(s, 1, Len(s) - 1)) ELSE s

\* str.strip()
Strip(s) == LStrip(RStrip(s))

\* index of the first "?" at or after position p, 0 when there is none
RECURSIVE NextQMark(_, _)
NextQMark(s, p) ==
    IF p > Len(s) THEN 0
    ELSE IF s[p] = "?" THEN p ELSE NextQMark(s, p + 1)

\* re.findall(r"([A-Z][^?]{3,}?\?)", text, MULTILINE | DOTALL), scanning from p:
\* a match at p needs an uppercase letter at p and the first "?" after p at
\* least 3 characters further; the scan resumes after a match's "?".
RECURSIVE FindAllFrom(_, _)
FindAllFrom(s, p) ==
    IF p > Len(s) THEN <<>>
    ELSE LET j == NextQMark(s, p + 1)
         IN  IF IsUpper(s[p]) /\ j # 0 /\ j - p - 1 >= 3
             THEN <<SubSeq(s, p, j)>> \o FindAllFrom(s, j + 1)
             ELSE FindAllFrom(s, p + 1)

SeqToSet(s) == {s[i] : i \in DOMAIN s}

\* list(dict.fromkeys(...)): first occurrences, in order
RECURSIVE DedupeFrom(_, _)
DedupeFrom(s, acc) ==
    IF s = <<>> THEN acc
    ELSE IF Head(s) \in SeqToSet(acc) THEN DedupeFrom(Tail(s), acc)
         ELSE DedupeFrom(Tail(s), Append(acc, Head(s)))

StripAll(ms) == [i \in DOMAIN ms |-> Strip(ms[i])]

\* faulty variant: the matches returned without the order-preserving dedupe
extract_questionsAllMatches(t) == StripAll(FindAllFrom(t, 1))

extract_questions(t) == DedupeFrom(StripAll(FindAllFrom(t, 1)), <<>>)

(***************************************************************************)
(* Recognized texts the OCR engine may return in the continuous loop       *)
(***************************************************************************)
What  == <<"W", "h", "a", "t", "?">>
Areit == <<"A", "r", "e", " ", "i", "t", "?">>
Who   == <<"W", "h", "o", "?">>             \* too short for the pattern
Noise == <<"n", "o", " ", "q">>

OcrTexts ==
    { <<>>, Noise, Who, What, Areit,
      What \o <<"\n">> \o Areit,
      Areit \o <<" ">> \o What,
      What \o <<" ">> \o What }

(***************************************************************************)
(* Answer clients: query_openai (screen_qna.py, screen_qna_gui.py) and     *)
(* ask_ai (screen_qna_snap.py)                                             *)
(***************************************************************************)
Clients == {"cli", "gui", "snap"}
ApiKeys == {"absent", "empty", "set"}   \* os.getenv: None, "", a key
Libs == {"v1", "v0"}                    \* openai>=1.0 / openai<1.0
Failures == {"MissingCredential", "AuthFailure", "AuthFailureClarified",
             "ServiceError"}

\* faulty variant: the check written as `if api_key is None`
KeyMissingNoneOnly(key) == key = "absent"

\* `if not api_key`: None and "" are both falsy
KeyMissing(key) == key \in {"absent", "empty"}

\* The request a client issues on a call path: the GUI client's new-style
\* request carries a system instruction and temperature 0.2
Request(c, path, p) ==
    [client |-> c, path |-> path, prompt |-> p,
     system |-> (c = "gui" /\ path = "new"),
     temperature |-> IF c = "gui" /\ path = "new" THEN "0.2" ELSE "0.7"]

\* What the remote service does with an issued request: a reply, a reply
\* whose content is None, an authentication rejection, any other error
RemoteOutcomes == {"reply", "none_content", "auth", "error"}

\* entering a client: the state right after the call, before os.getenv
AskEnter(c, p) ==
    /\ askPc' = "check"
    /\ askClient' = c
    /\ prompt' = p
    /\ askResult' = None
    /\ calls' = calls + 1
    /\ UNCHANGED <<apiKey, lib, requests>>

AskRaise(kind) ==
    /\ askPc' = "raised"
    /\ askResult' = kind

\* api_key = os.getenv(...); if not api_key: raise RuntimeError(...)
AskCheck ==
    /\ askPc = "check"
    /\ IF KeyMissing(apiKey)
       THEN AskRaise("MissingCredential")
       ELSE askPc' = "new" /\ askResult' = askResult
    /\ UNCHANGED <<askClient, apiKey, lib, prompt, requests, calls>>

\* the try block: openai.OpenAI(...).chat.completions.create(...), and the
\* except clauses that follow it.  With openai<1.0 openai.OpenAI does not
\* exist: AttributeError before any request.  The GUI client's first except
\* clause names openai.AuthenticationError, which openai<1.0 lacks as well,
\* so matching the AttributeError raises a new AttributeError that leaves
\* the function; the other clients fall through to the legacy call.
AskNew ==
    /\ askPc = "new"
    /\ IF lib = "v0"
       THEN /\ IF askClient = "gui"
               THEN AskRaise("ServiceError")
               ELSE askPc' = "legacy" /\ askResult' = askResult
            /\ requests' = requests
       ELSE /\ requests' = Append(requests, Request(askClient, "new", prompt))
            /\ \E r \in RemoteOutcomes :
                 CASE r = "reply" -> askPc' = "returned" /\ askResult' = "ok"
                   [] r = "none_content" ->
                        \* None.strip(): AttributeError, caught as the
                        \* "older library" case
                        askPc' = "legacy" /\ askResult' = askResult
                   [] r = "auth" ->
                        AskRaise(IF askClient = "gui"
                                 THEN "AuthFailureClarified" ELSE "AuthFailure")
                   [] OTHER -> AskRaise("ServiceError")
    /\ UNCHANGED <<askClient, apiKey, lib, prompt, calls>>

\* except AttributeError: openai.api_key = key; openai.ChatCompletion.create
\* With openai>=1.0 that entry point is removed and raises before any request.
AskLegacy ==
    /\ askPc = "legacy"
    /\ IF lib = "v0"
       THEN /\ requests' = Append(requests, Request(askClient, "legacy", prompt))
            /\ \E r \in RemoteOutcomes :
                 CASE r = "reply" -> askPc' = "returned" /\ askResult' = "ok"
                   [] r = "auth" -> AskRaise("AuthFailure")
                   [] OTHER -> AskRaise("ServiceError")
       ELSE /\ requests' = requests
            /\ AskRaise("ServiceError")
    /\ UNCHANGED <<askClient, apiKey, lib, prompt, calls>>

AskStep == AskCheck \/ AskNew \/ AskLegacy

AskIdle ==
    /\ askPc = "idle" /\ askClient = None /\ prompt = <<>>
    /\ requests = <<>> /\ askResult = None /\ calls = 0

(***************************************************************************)
(* Resting values of the components a specification does not run           *)
(***************************************************************************)
LoopIdle ==
    /\ pc = "off" /\ once = FALSE /\ cycle = 0 /\ text = <<>> /\ queue = <<>>
    /\ cur = None /\ seen = {} /\ sent = <<>> /\ crashCause = None

SelIdle ==
    /\ overlay = "none" /\ grab = FALSE /\ selRoot = "none" /\ sel = {}
    /\ rect_id = 0 /\ liveRect = <<>>
    /\ selPc = "off" /\ selResult = <<>> /\ variant = None
    /\ evPress = <<>> /\ evRelease = <<>> /\ evEscape = FALSE
    /\ nTerminal = 0 /\ emitted = 0

GuiIdle ==
    /\ uiPc = "off" /\ button = "normal" /\ uiQueue = <<>> /\ workers = <<>>
    /\ started = 0 /\ nTriggers = 0
    /\ answerBox = <<>> /\ clipboard = <<>> /\ dialog = None
    /\ cancelled = {}

SnapIdle ==
    /\ snapPc = "off" /\ snapArgs = <<>> /\ snapText = <<>> /\ snapLog = <<>>
    /\ shots = 0

FnIdle == fIn = <<>> /\ fArg = <<>> /\ fOut = <<>> /\ fPc = "off"

(***************************************************************************)
(* Continuous orchestrator: main() of screen_qna.py                        *)
(***************************************************************************)
Running == {"capture", "ocr", "extract", "for", "query", "sleep"}

\* seen: set[str] = set(); the loop is entered at its first capture
LoopInit ==
    /\ pc = "capture" /\ once \in BOOLEAN /\ cycle = 1
    /\ text = <<>> /\ queue = <<>> /\ cur = None
    /\ seen = {} /\ sent = <<>> /\ crashCause = None
    /\ apiKey \in ApiKeys /\ lib \in Libs
    /\ AskIdle /\ SelIdle /\ GuiIdle /\ SnapIdle /\ FnIdle

\* an exception no handler of main() catches ends the process
Crash(cause) ==
    /\ pc' = "crashed"
    /\ crashCause' = cause
    /\ UNCHANGED <<once, cycle, text, queue, cur, seen, sent>>

\* img = capture_screen(region_box): pyautogui.screenshot returns or raises
Capture ==
    /\ pc = "capture"
    /\ \/ pc' = "ocr" /\ UNCHANGED <<once, cycle, text, queue, cur, seen, sent, crashCause>>
       \/ Crash("capture")
    /\ UNCHANGED <<askVars, selVars, guiVars, snapVars, fnVars>>

\* text = pytesseract.image_to_string(img): returns some text or raises
Recognize ==
    /\ pc = "ocr"
    /\ \/ \E t \in OcrTexts :
            /\ text' = t
            /\ pc' = "extract"
            /\ UNCHANGED <<once, cycle, queue, cur, seen, sent, crashCause>>
       \/ Crash("ocr")
    /\ UNCHANGED <<askVars, selVars, guiVars, snapVars, fnVars>>

\* for q in extract_questions(text): the iterable is evaluated once
Extract ==
    /\ pc = "extract"
    /\ queue' = extract_questions(text)
    /\ pc' = "for"
    /\ UNCHANGED <<once, cycle, text, cur, seen, sent, crashCause>>
    /\ UNCHANGED <<askVars, selVars, guiVars, snapVars, fnVars>>

\* faulty variant: the membership test dropped
AlreadySeenNever(q, s) == FALSE

\* if q in seen
AlreadySeen(q, s) == q \in s

\* if q in seen: continue
ForSkip ==
    /\ pc = "for" /\ queue # <<>>
    /\ AlreadySeen(Head(queue), seen)
    /\ queue' = Tail(queue)
    /\ UNCHANGED <<pc, once, cycle, text, cur, seen, sent, crashCause>>
    /\ UNCHANGED <<askVars, selVars, guiVars, snapVars, fnVars>>

\* print("[Q] ..."); query_openai(q, args.model) is entered
ForAsk ==
    /\ pc = "for" /\ queue # <<>>
    /\ ~AlreadySeen(Head(queue), seen)
    /\ cur' = Head(queue)
    /\ queue' = Tail(queue)
    /\ pc' = "query"
    /\ sent' = Append(sent, [q |-> Head(queue), cycle |-> cycle, outcome |-> "pending"])
    /\ AskEnter("cli", Head(queue))
    /\ UNCHANGED <<once, cycle, text, seen, crashCause>>
    /\ UNCHANGED <<selVars, guiVars, snapVars, fnVars>>

\* the body of query_openai runs
QueryStep ==
    /\ pc = "query"
    /\ AskStep
    /\ UNCHANGED <<loopVars, selVars, guiVars, snapVars, fnVars>>

SetOutcome(log, o) == [log EXCEPT ![Len(log)].outcome = o]

\* query_openai returned: print the answer; seen.add(q)
QueryReturn ==
    /\ pc = "query" /\ askPc = "returned"
    /\ seen' = seen \cup {cur}
    /\ sent' = SetOutcome(sent, askResult)
    /\ pc' = "for"
    /\ askPc' = "idle"
    /\ UNCHANGED <<once, cycle, text, queue, cur, crashCause>>
    /\ UNCHANGED <<askClient, apiKey, lib, prompt, requests, askResult, calls>>
    /\ UNCHANGED <<selVars, guiVars, snapVars, fnVars>>

\* faulty variant: seen.add(q) done whatever the outcome of the query
QueryRaiseMarksSeen ==
    /\ pc = "query" /\ askPc = "raised"
    /\ seen' = seen \cup {cur}
    /\ sent' = SetOutcome(sent, askResult)
    /\ pc' = "for"
    /\ askPc' = "idle"
    /\ UNCHANGED <<once, cycle, text, queue, cur, crashCause>>
    /\ UNCHANGED <<askClient, apiKey, lib, prompt, requests, askResult, calls>>
    /\ UNCHANGED <<selVars, guiVars, snapVars, fnVars>>

\* faulty variant: no except clause around the query, the exception leaves main()
QueryRaisePropagates ==
    /\ pc = "query" /\ askPc = "raised"
    /\ sent' = SetOutcome(sent, askResult)
    /\ pc' = "crashed"
    /\ crashCause' = "query"
    /\ askPc' = "idle"
    /\ UNCHANGED <<once, cycle, text, queue, cur, seen>>
    /\ UNCHANGED <<askClient, apiKey, lib, prompt, requests, askResult, calls>>
    /\ UNCHANGED <<selVars, guiVars, snapVars, fnVars>>

\* except Exception as e: print(...); the for loop goes on
QueryRaise ==
    /\ pc = "query" /\ askPc = "raised"
    /\ sent' = SetOutcome(sent, askResult)
    /\ pc' = "for"
    /\ askPc' = "idle"
    /\ UNCHANGED <<once, cycle, text, queue, cur, seen, crashCause>>
    /\ UNCHANGED <<askClient, apiKey, lib, prompt, requests, askResult, calls>>
    /\ UNCHANGED <<selVars, guiVars, snapVars, fnVars>>

\* faulty variant: the `if args.once: break` left out
ForDoneNoBreak ==
    /\ pc = "for" /\ queue = <<>>
    /\ pc' = "sleep"
    /\ UNCHANGED <<once, cycle, text, queue, cur, seen, sent, crashCause>>
    /\ UNCHANGED <<askVars, selVars, guiVars, snapVars, fnVars>>

\* the for loop is exhausted: if args.once: break
ForDone ==
    /\ pc = "for" /\ queue = <<>>
    /\ pc' = IF once THEN "done" ELSE "sleep"
    /\ UNCHANGED <<once, cycle, text, queue, cur, seen, sent, crashCause>>
    /\ UNCHANGED <<askVars, selVars, guiVars, snapVars, fnVars>>

\* faulty variant: the set created anew at the top of every cycle
SleepForgets ==
    /\ pc = "sleep" /\ cycle < MaxCycles
    /\ cycle' = cycle + 1
    /\ pc' = "capture"
    /\ seen' = {}
    /\ UNCHANGED <<once, text, queue, cur, sent, crashCause>>
    /\ UNCHANGED <<askVars, selVars, guiVars, snapVars, fnVars>>

\* time.sleep(max(1, args.interval)); back to the top of while True
Sleep ==
    /\ pc = "sleep" /\ cycle < MaxCycles
    /\ cycle' = cycle + 1
    /\ pc' = "capture"
    /\ UNCHANGED <<once, text, queue, cur, seen, sent, crashCause>>
    /\ UNCHANGED <<askVars, selVars, guiVars, snapVars, fnVars>>

\* except KeyboardInterrupt: print("Exiting"): the stop signal, at any point
Interrupt ==
    /\ pc \in Running
    /\ pc' = "interrupted"
    /\ UNCHANGED <<once, cycle, text, queue, cur, seen, sent, crashCause>>
    /\ UNCHANGED <<askVars, selVars, guiVars, snapVars, fnVars>>

LoopNext ==
    \/ Capture \/ Recognize \/ Extract \/ ForSkip \/ ForAsk \/ QueryStep
    \/ QueryReturn \/ QueryRaise \/ ForDone \/ Sleep \/ Interrupt

LoopSpec == LoopInit /\ [][LoopNext]_vars

(***************************************************************************)
(* The answer clients on their own: any client, any credential state       *)
(***************************************************************************)
Prompts == {What, Areit}

AskInit ==
    /\ AskIdle /\ apiKey \in ApiKeys /\ lib \in Libs
    /\ LoopIdle /\ SelIdle /\ GuiIdle /\ SnapIdle /\ FnIdle

AskCall ==
    /\ askPc \in {"idle", "returned", "raised"}
    /\ calls < MaxCalls
    /\ \E c \in Clients, p \in Prompts : AskEnter(c, p)
    /\ UNCHANGED <<loopVars, selVars, guiVars, snapVars, fnVars>>

AskRun ==
    /\ AskStep
    /\ UNCHANGED <<loopVars, selVars, guiVars, snapVars, fnVars>>

AskNext == AskCall \/ AskRun

AskSpec == AskInit /\ [][AskNext]_vars

(***************************************************************************)
(* Properties of the continuous orchestrator (LoopSpec)                    *)
(***************************************************************************)
\* the questions extracted from the text of the current cycle
Detected == SeqToSet(extract_questions(text))

\* the for loop of the current cycle has run to its end
CycleEnded == pc \in {"sleep", "done"}

SentIn(x, c) == \E i \in DOMAIN sent : sent[i].q = x /\ sent[i].cycle = c

\* C1: once a question is in SeenSet it stays there, and no step sends a
\* question that is in SeenSet to the answer client; so no later cycle
\* re-sends it, however often it is detected again.
C1_SeenNeverResent ==
    [][\A x \in seen :
          /\ x \in seen'
          /\ Len(sent') > Len(sent) => sent'[Len(sent')].q # x]_vars

\* C1 witness: a question answered in cycle 1 is detected again in cycle 2
\* and the cycle ends without a second query for it.
C1_Witness ==
    /\ CycleEnded /\ cycle = 2
    /\ \E x \in Detected \cap seen :
         /\ \E i \in DOMAIN sent :
              sent[i].q = x /\ sent[i].cycle = 1 /\ sent[i].outcome = "ok"
         /\ ~SentIn(x, 2)

\* C2: a question whose query failed is not in SeenSet (every member of
\* SeenSet has a successful query), and a question that failed in the
\* previous cycle and is detected again is sent again in this cycle.
C2_FailedNotSeenRetried ==
    /\ \A x \in seen :
         \E i \in DOMAIN sent : sent[i].q = x /\ sent[i].outcome = "ok"
    /\ \A i \in DOMAIN sent :
         (sent[i].outcome \in Failures /\ i = Len(sent) /\ pc = "for")
            => sent[i].q \notin seen
    /\ CycleEnded =>
         \A i \in DOMAIN sent :
            (/\ sent[i].outcome \in Failures
             /\ sent[i].cycle = cycle - 1
             /\ sent[i].q \in Detected)
               => \E j \in DOMAIN sent :
                     j > i /\ sent[j].q = sent[i].q /\ sent[j].cycle = cycle

\* C2 witness: a question failed in cycle 1, was queried again in cycle 2.
C2_Witness ==
    /\ CycleEnded
    /\ \E i, j \in DOMAIN sent :
         /\ i < j /\ sent[i].q = sent[j].q
         /\ sent[i].cycle = 1 /\ sent[j].cycle = 2
         /\ sent[i].outcome \in Failures

\* C3: a failed query never ends the loop: no crash is caused by a query,
\* every detected question of a finished cycle is in SeenSet or was sent in
\* that cycle, and after a failure a continuous run is still running or at
\* its sleep unless it was interrupted or a capture/OCR call crashed it.
C3_QueryFailureIsolated ==
    /\ crashCause # "query"
    /\ CycleEnded => \A x \in Detected : x \in seen \/ SentIn(x, cycle)
    /\ (\E i \in DOMAIN sent : sent[i].outcome \in Failures)
          => /\ pc = "done" => once
             /\ pc = "crashed" => crashCause \in {"capture", "ocr"}

\* C3 witness: in one cycle of a continuous run a query failed, a later
\* question of the same cycle was still sent, and the loop is at its sleep.
C3_Witness ==
    /\ pc = "sleep" /\ ~once
    /\ \E i, j \in DOMAIN sent :
         /\ i < j /\ sent[i].cycle = cycle /\ sent[j].cycle = cycle
         /\ sent[i].outcome \in Failures

\* C4: in continuous mode a capture or OCR call that raises leaves the loop
\* running (the next cycle is still scheduled).
C4_CaptureFailureKeepsLoop ==
    (~once /\ crashCause \in {"capture", "ocr"}) => pc \in Running \cup {"interrupted"}

\* C6: in continuous mode a missing-credential failure is the last thing sent
\* and the run is over: nothing is attempted after it.
C6_MissingCredentialAborts ==
    ~once =>
      \A i \in DOMAIN sent :
         sent[i].outcome = "MissingCredential"
            => i = Len(sent) /\ pc \notin Running

(***************************************************************************)
(* Properties of the answer clients (AskSpec)                              *)
(***************************************************************************)
\* C7: with the credential absent or empty, no request is ever issued on
\* either call path, neither path is entered, and a finished call has
\* failed with the missing-credential failure; for all three clients.
C7_NoRequestWithoutCredential ==
    apiKey \in {"absent", "empty"} =>
       /\ requests = <<>>
       /\ askPc \notin {"new", "legacy", "returned"}
       /\ askPc = "raised" => askResult = "MissingCredential"

\* C7 witness: a second call, of the GUI client, failed with an empty key
C7_Witness ==
    /\ apiKey = "empty" /\ askPc = "raised" /\ askClient = "gui"
    /\ calls = 2 /\ requests = <<>>

(***************************************************************************)
(* Region selector: select_region of screen_qna_gui.py ("gui") and of      *)
(* screen_qna_snap.py ("snap").  The dict sel is a set of <<key, value>>   *)
(* pairs; rect_id is 0 for None, else the id of the last canvas rectangle; *)
(* <<>> stands for an absent point, rectangle or result (None).            *)
(***************************************************************************)
Coords == 0..MaxCoord
Variants == {"gui", "snap"}

Keys(d) == {e[1] : e \in d}
Get(d, k) == (CHOOSE e \in d : e[1] = k)[2]
Put(d, k, v) == {e \in d : e[1] # k} \cup {<<k, v>>}

Min(a, b) == IF a <= b THEN a ELSE b
Max(a, b) == IF a >= b THEN a ELSE b

\* the overlay is built and shown, the handlers are bound, and the call
\* waits (parent.wait_window(overlay) / overlay.mainloop())
SelEnter(v) ==
    /\ variant' = v
    /\ overlay' = "shown"
    /\ grab' = (v = "gui")                    \* overlay.grab_set()
    /\ selRoot' = IF v = "snap" THEN "alive" ELSE "parent"
    /\ sel' = {}
    /\ rect_id' = 0
    /\ liveRect' = <<>>
    /\ selPc' = "waiting"
    /\ selResult' = <<>>
    /\ evPress' = <<>> /\ evRelease' = <<>> /\ evEscape' = FALSE
    /\ nTerminal' = 0 /\ emitted' = 0

\* <ButtonPress-1>
on_press(x, y) ==
    /\ overlay = "shown" /\ rect_id < MaxPresses
    /\ sel' = Put(Put(sel, "x1", x), "y1", y)
    /\ rect_id' = rect_id + 1                 \* canvas.create_rectangle
    /\ liveRect' = <<x, y, x, y>>
    /\ evPress' = <<x, y>>
    /\ UNCHANGED <<overlay, grab, selRoot, selPc, selResult, variant,
                   evRelease, evEscape, nTerminal, emitted>>

\* <B1-Motion>: if rect_id: canvas.coords(rect_id, x1, y1, x_root, y_root)
on_drag(x, y) ==
    /\ overlay = "shown"
    /\ liveRect' = IF rect_id # 0
                   THEN <<Get(sel, "x1"), Get(sel, "y1"), x, y>>
                   ELSE liveRect
    /\ UNCHANGED <<overlay, grab, selRoot, sel, rect_id, selPc, selResult,
                   variant, evPress, evRelease, evEscape, nTerminal, emitted>>

\* what destroying the overlay leaves: gui releases its grab, snap also
\* destroys the Tk root it created
TornDown ==
    /\ overlay' = "destroyed"
    /\ grab' = FALSE
    /\ selRoot' = IF variant = "snap" THEN "destroyed" ELSE selRoot

\* faulty variant: the release handler records the point but leaves the overlay up
on_releaseNoTeardown(x, y) ==
    /\ overlay = "shown"
    /\ sel' = Put(Put(sel, "x2", x), "y2", y)
    /\ evRelease' = <<x, y>>
    /\ nTerminal' = nTerminal + 1
    /\ UNCHANGED <<overlay, grab, selRoot>>
    /\ UNCHANGED <<rect_id, liveRect, selPc, selResult, variant, evPress,
                   evEscape, emitted>>

\* <ButtonRelease-1>
on_release(x, y) ==
    /\ overlay = "shown"
    /\ sel' = Put(Put(sel, "x2", x), "y2", y)
    /\ evRelease' = <<x, y>>
    /\ nTerminal' = nTerminal + 1
    /\ TornDown
    /\ UNCHANGED <<rect_id, liveRect, selPc, selResult, variant, evPress,
                   evEscape, emitted>>

\* faulty variant: Escape bound to a handler that closes the selection at the
\* pointer position, as a release does, instead of clearing it
on_escapeAsRelease ==
    /\ overlay = "shown"
    /\ \E x, y \in Coords : sel' = Put(Put(sel, "x2", x), "y2", y)
    /\ evEscape' = TRUE
    /\ nTerminal' = nTerminal + 1
    /\ TornDown
    /\ UNCHANGED <<rect_id, liveRect, selPc, selResult, variant, evPress,
                   evRelease, emitted>>

\* <Escape>: sel.clear(); overlay.destroy()
on_escape ==
    /\ overlay = "shown"
    /\ sel' = {}
    /\ evEscape' = TRUE
    /\ nTerminal' = nTerminal + 1
    /\ TornDown
    /\ UNCHANGED <<rect_id, liveRect, selPc, selResult, variant, evPress,
                   evRelease, emitted>>

\* faulty variant: the corners returned as recorded, without min/max
SelectionResultRaw(d) ==
    IF {"x1", "y1", "x2", "y2"} \subseteq Keys(d)
    THEN <<Get(d, "x1"), Get(d, "y1"), Get(d, "x2"), Get(d, "y2")>>
    ELSE <<>>

\* faulty variant: only the release corner required, a missing press corner
\* read as sel.get("x1", sel["x2"]), sel.get("y1", sel["y2"])
SelectionResultDefaulting(d) ==
    IF {"x2", "y2"} \subseteq Keys(d)
    THEN LET x1 == IF "x1" \in Keys(d) THEN Get(d, "x1") ELSE Get(d, "x2")
             y1 == IF "y1" \in Keys(d) THEN Get(d, "y1") ELSE Get(d, "y2")
         IN  <<Min(x1, Get(d, "x2")), Min(y1, Get(d, "y2")),
               Max(x1, Get(d, "x2")), Max(y1, Get(d, "y2"))>>
    ELSE <<>>

\* if {"x1","y1","x2","y2"}.issubset(sel): return (min, min, max, max)
\* return None
SelectionResult(d) ==
    IF {"x1", "y1", "x2", "y2"} \subseteq Keys(d)
    THEN <<Min(Get(d, "x1"), Get(d, "x2")), Min(Get(d, "y1"), Get(d, "y2")),
           Max(Get(d, "x1"), Get(d, "x2")), Max(Get(d, "y1"), Get(d, "y2"))>>
    ELSE <<>>

\* the wait ends once the overlay is destroyed; select_region returns
SelReturn ==
    /\ selPc = "waiting" /\ overlay = "destroyed"
    /\ selResult' = SelectionResult(sel)
    /\ selPc' = "returned"
    /\ emitted' = emitted + 1
    /\ UNCHANGED <<overlay, grab, selRoot, sel, rect_id, liveRect, variant,
                   evPress, evRelease, evEscape, nTerminal>>

SelInit ==
    /\ overlay = "shown" /\ variant \in Variants
    /\ grab = (variant = "gui")
    /\ selRoot = (IF variant = "snap" THEN "alive" ELSE "parent")
    /\ sel = {} /\ rect_id = 0 /\ liveRect = <<>>
    /\ selPc = "waiting" /\ selResult = <<>>
    /\ evPress = <<>> /\ evRelease = <<>> /\ evEscape = FALSE
    /\ nTerminal = 0 /\ emitted = 0
    /\ LoopIdle /\ AskIdle /\ apiKey = "set" /\ lib = "v1" /\ GuiIdle
    /\ SnapIdle /\ FnIdle

Press == (\E x, y \in Coords : on_press(x, y)) /\ UNCHANGED <<loopVars, askVars, guiVars, snapVars, fnVars>>
Drag == (\E x, y \in Coords : on_drag(x, y)) /\ UNCHANGED <<loopVars, askVars, guiVars, snapVars, fnVars>>
Release == (\E x, y \in Coords : on_release(x, y)) /\ UNCHANGED <<loopVars, askVars, guiVars, snapVars, fnVars>>
Escape == on_escape /\ UNCHANGED <<loopVars, askVars, guiVars, snapVars, fnVars>>
Return == SelReturn /\ UNCHANGED <<loopVars, askVars, guiVars, snapVars, fnVars>>

SelNext == Press \/ Drag \/ Release \/ Escape \/ Return

SelSpec == SelInit /\ [][SelNext]_vars

(***************************************************************************)
(* Properties of the region selector (SelSpec)                             *)
(***************************************************************************)
IsRectangle(r) == Len(r) = 4 /\ \A i \in 1..4 : r[i] \in Coords

\* C8: whatever events arrive, an invocation handles at most one terminal
\* event (release or escape), the overlay is torn down exactly when one was
\* handled, the call returns once, with a rectangle or with nothing, and
\* after the return nothing changes the result.
C8_ExactlyOneOutcome ==
    /\ [](/\ nTerminal <= 1 /\ emitted <= 1
          /\ (nTerminal = 1) <=> (overlay = "destroyed" /\ ~grab)
          /\ (variant = "snap" /\ nTerminal = 1) => selRoot = "destroyed"
          /\ selPc = "waiting" => emitted = 0 /\ selResult = <<>>
          /\ selPc = "returned" =>
                /\ emitted = 1 /\ nTerminal = 1
                /\ selResult = <<>> \/ IsRectangle(selResult))
    /\ [][selPc = "returned" => UNCHANGED <<selResult, sel, emitted, selPc>>]_vars

\* C8 witness: a press, a drag and a release ended in a returned rectangle
C8_Witness ==
    /\ selPc = "returned" /\ IsRectangle(selResult) /\ overlay = "destroyed"
    /\ evPress # <<>> /\ evRelease # <<>> /\ liveRect # <<>>
    /\ liveRect[3] # liveRect[1]

\* C9: a returned rectangle is <<min x, min y, max x, max y>> of the press
\* and release points, so x1 <= x2 and y1 <= y2 for every drag direction.
C9_RectangleNormalized ==
    selResult # <<>> =>
       /\ selResult[1] <= selResult[3] /\ selResult[2] <= selResult[4]
       /\ evPress # <<>> /\ evRelease # <<>>
       /\ selResult[1] = Min(evPress[1], evRelease[1])
       /\ selResult[3] = Max(evPress[1], evRelease[1])
       /\ selResult[2] = Min(evPress[2], evRelease[2])
       /\ selResult[4] = Max(evPress[2], evRelease[2])

\* C9 witness: a drag from the bottom-right corner to the top-left one
C9_Witness ==
    /\ selPc = "returned"
    /\ evPress = <<MaxCoord, MaxCoord>> /\ evRelease = <<0, 0>>
    /\ selResult = <<0, 0, MaxCoord, MaxCoord>>

\* C10: once Escape was handled, in Idle or after a press and drags, the
\* overlay is gone and the call returns nothing, never a rectangle.
C10_EscapeReturnsNone ==
    evEscape =>
       /\ overlay = "destroyed" /\ evRelease = <<>>
       /\ selPc = "returned" => selResult = <<>>

\* C10 witness: Escape after a press and a drag; the call returned None
C10_Witness ==
    /\ evEscape /\ selPc = "returned" /\ selResult = <<>>
    /\ evPress # <<>> /\ liveRect # <<>> /\ liveRect[3] # liveRect[1]

\* C21: select_region returns a rectangle exactly when a press was recorded
\* and a release was recorded after it with no escape; a press is never
\* recorded after a release or an escape; a release with no press before it
\* is handled like any terminal event (the overlay is torn down, nothing
\* is raised) and the call returns None.
C21_RectangleIffPressThenRelease ==
    /\ [](selPc = "returned" =>
            (IsRectangle(selResult) <=>
                (evPress # <<>> /\ evRelease # <<>> /\ ~evEscape)))
    /\ [][evPress' # evPress => evRelease = <<>> /\ ~evEscape]_vars
    /\ []((evRelease # <<>> /\ evPress = <<>>) =>
            /\ overlay = "destroyed" /\ nTerminal = 1
            /\ selPc = "returned" => selResult = <<>>)

\* a release in Idle, after a drag with no button recorded: None returned
C21_Witness ==
    /\ selPc = "returned" /\ selResult = <<>>
    /\ evPress = <<>> /\ evRelease # <<>> /\ ~evEscape
    /\ rect_id = 0 /\ overlay = "destroyed"

(***************************************************************************)
(* GUI: main() and run_ocr_and_answer of screen_qna_gui.py.                *)
(* The UI thread is in root.mainloop() ("mainloop") or inside              *)
(* on_select_and_answer, waiting in select_region ("selecting"); both run  *)
(* the Tk event loop, so queued after(0, ...) callbacks are processed in   *)
(* either.  Each started thread is an entry of workers.  A worker's        *)
(* consecutive ui(...) calls, each of which only appends a callback to the *)
(* event queue, form one step with the blocking call before them.          *)
(***************************************************************************)
\* what query_openai of the GUI ends with, from AskCheck/AskNew/AskLegacy
GuiAskOutcomes ==
    IF KeyMissing(apiKey) THEN {"MissingCredential"}
    ELSE IF lib = "v0" THEN {"ServiceError"}
    ELSE {"ok", "AuthFailureClarified", "ServiceError"}

\* the dicts select_region can end with: cleared by Escape, a release with
\* no press, a press and a release
GuiSelections ==
    { {},
      {<<"x2", 0>>, <<"y2", 0>>},
      {<<"x1", MaxCoord>>, <<"y1", 0>>, <<"x2", 0>>, <<"y2", MaxCoord>>} }

\* the summary agrees with the client run step by step (AskSpec)
GuiAskOutcomesSound ==
    (askClient = "gui" /\ askPc \in {"returned", "raised"})
       => askResult \in GuiAskOutcomes

GuiInit ==
    /\ uiPc = "mainloop" /\ button = "normal" /\ uiQueue = <<>>
    /\ workers = <<>> /\ started = 0 /\ nTriggers = 0
    /\ answerBox = <<>> /\ clipboard = <<>> /\ dialog = None
    /\ cancelled = {}
    /\ apiKey \in ApiKeys /\ lib \in Libs
    /\ LoopIdle /\ AskIdle /\ SelIdle /\ SnapIdle /\ FnIdle

InFlight == {w \in DOMAIN workers : workers[w].pc # "done"}

\* on_select_and_answer is entered: root.attributes('-disabled', True);
\* select_region(root) shows the overlay and waits
EnterSelect ==
    /\ uiPc = "mainloop" /\ nTriggers < MaxTriggers
    /\ uiPc' = "selecting"
    /\ nTriggers' = nTriggers + 1
    /\ UNCHANGED <<button, uiQueue, workers, started>>
    /\ UNCHANGED <<answerBox, clipboard, dialog, cancelled>>

\* the button's command: Tk runs it only while the button is not disabled
ClickButton ==
    /\ button = "normal"
    /\ EnterSelect
    /\ UNCHANGED <<loopVars, askVars, selVars, snapVars, fnVars>>

\* root.bind("<Control-s>", ...): the binding does not look at the button
CtrlS ==
    /\ EnterSelect
    /\ UNCHANGED <<loopVars, askVars, selVars, snapVars, fnVars>>

\* threading.Thread(target=run_ocr_and_answer, args=(root, bbox, ...)).start()
\* for the attempt the user triggered last
StartThread(bbox) ==
    /\ workers' = Append(workers, [pc |-> "start", bbox |-> bbox,
                                   attempt |-> nTriggers])
    /\ started' = started + 1

\* faulty variant: the `if not bbox: return` left out
SelectDoneNoReturn ==
    /\ uiPc = "selecting"
    /\ \E d \in GuiSelections :
         LET bbox == SelectionResult(d)
         IN  /\ cancelled' = IF bbox = <<>> THEN cancelled \cup {nTriggers}
                             ELSE cancelled
             /\ StartThread(bbox)
    /\ uiPc' = "mainloop"
    /\ UNCHANGED <<button, uiQueue, nTriggers, answerBox, clipboard, dialog>>
    /\ UNCHANGED <<loopVars, askVars, selVars, snapVars, fnVars>>

\* select_region returned; if not bbox: return; else the thread is started.
\* cancelled records the attempts whose selection returned None.
SelectDone ==
    /\ uiPc = "selecting"
    /\ \E d \in GuiSelections :
         LET bbox == SelectionResult(d)
         IN  IF bbox = <<>>
             THEN /\ cancelled' = cancelled \cup {nTriggers}
                  /\ UNCHANGED <<workers, started>>
             ELSE /\ StartThread(bbox)
                  /\ UNCHANGED cancelled
    /\ uiPc' = "mainloop"
    /\ UNCHANGED <<button, uiQueue, nTriggers, answerBox, clipboard, dialog>>
    /\ UNCHANGED <<loopVars, askVars, selVars, snapVars, fnVars>>

\* the Tk event loop runs the oldest after(0, ...) callback:
\* button.config(state=...), ui_text.delete("1.0", END), ui_text.insert(END,
\* ...), root.clipboard_clear(), root.clipboard_append(formatted),
\* messagebox.showinfo / showerror
UiProcess ==
    /\ uiPc \in {"mainloop", "selecting"} /\ uiQueue # <<>>
    /\ LET op == Head(uiQueue).op
       IN  /\ button' = CASE op = "disable" -> "disabled"
                          [] op = "enable" -> "normal"
                          [] OTHER -> button
           /\ answerBox' = CASE op = "delete" -> <<>>
                             [] op = "insert_running" -> Append(answerBox, "running")
                             [] op = "insert_ocr" -> Append(answerBox, "ocr")
                             [] op = "insert_answer" -> Append(answerBox, "formatted")
                             [] OTHER -> answerBox
           /\ clipboard' = CASE op = "clipboard_clear" -> <<>>
                             [] op = "clipboard_append" -> Append(clipboard, "formatted")
                             [] OTHER -> clipboard
           /\ dialog' = CASE op = "showinfo" -> "info"
                          [] op = "showerror" -> "error"
                          [] OTHER -> dialog
    /\ uiQueue' = Tail(uiQueue)
    /\ UNCHANGED <<uiPc, workers, started, nTriggers, cancelled>>
    /\ UNCHANGED <<loopVars, askVars, selVars, snapVars, fnVars>>

\* ui(func, ...): ui_text.after(0, func, ...), for each op in turn
Scheduled(w, ops) == [i \in DOMAIN ops |-> [op |-> ops[i], w |-> w]]

Presentation == <<button, answerBox, clipboard, dialog>>

WorkerGoes(w, to, ops) ==
    /\ workers' = [workers EXCEPT ![w].pc = to]
    /\ uiQueue' = uiQueue \o Scheduled(w, ops)
    /\ UNCHANGED <<uiPc, started, nTriggers, cancelled>>
    /\ UNCHANGED Presentation
    /\ UNCHANGED <<loopVars, askVars, selVars, snapVars, fnVars>>

\* faulty variant: button.config called in the worker thread itself
WorkerStartDirect(w) ==
    /\ workers[w].pc = "start"
    /\ workers' = [workers EXCEPT ![w].pc = "grab"]
    /\ button' = "disabled"
    /\ uiQueue' = uiQueue \o Scheduled(w, <<"delete", "insert_running">>)
    /\ UNCHANGED <<uiPc, started, nTriggers, cancelled>>
    /\ UNCHANGED <<answerBox, clipboard, dialog>>
    /\ UNCHANGED <<loopVars, askVars, selVars, snapVars, fnVars>>

\* lines 179-181: disable the button, clear the box, "Running OCR..."
WorkerStart(w) ==
    /\ workers[w].pc = "start"
    /\ WorkerGoes(w, "grab", <<"disable", "delete", "insert_running">>)

\* faulty variant: the enable scheduled at the end of the try body instead
\* of in a finally clause, so a failure leaves without it
WorkerFailsNoEnable(w) == WorkerGoes(w, "done", <<"showerror">>)

\* except Exception as e: traceback.print_exc(); ui(messagebox.showerror,
\* "Error", str(e)); finally: ui(enable): the thread ends
WorkerFails(w) == WorkerGoes(w, "done", <<"showerror", "enable">>)

\* img = ImageGrab.grab(bbox=bbox): returns or raises
WorkerGrab(w) ==
    /\ workers[w].pc = "grab"
    /\ \/ WorkerGoes(w, "ocr", <<>>)
       \/ WorkerFails(w)

\* text = pytesseract.image_to_string(...); ui(insert OCR result)
WorkerOcr(w) ==
    /\ workers[w].pc = "ocr"
    /\ \/ WorkerGoes(w, "query", <<"insert_ocr">>)
       \/ WorkerFails(w)

\* answer = query_openai(extract_question(text)); on success lines 199-213
\* schedule the answer, the clipboard writes and the dialog, then finally
\* schedules the enable and the thread ends
WorkerQuery(w) ==
    /\ workers[w].pc = "query"
    /\ \E r \in GuiAskOutcomes :
         IF r = "ok"
         THEN WorkerGoes(w, "done",
                         <<"delete", "insert_answer", "clipboard_clear",
                           "clipboard_append", "showinfo", "enable">>)
         ELSE WorkerFails(w)

Start == \E w \in DOMAIN workers : WorkerStart(w)
Grab == \E w \in DOMAIN workers : WorkerGrab(w)
Ocr == \E w \in DOMAIN workers : WorkerOcr(w)
Query == \E w \in DOMAIN workers : WorkerQuery(w)

GuiNext ==
    \/ ClickButton \/ CtrlS \/ SelectDone \/ UiProcess
    \/ Start \/ Grab \/ Ocr \/ Query

GuiSpec == GuiInit /\ [][GuiNext]_vars

(***************************************************************************)
(* Properties of the GUI (GuiSpec)                                         *)
(***************************************************************************)
\* C19: in continuous mode the seen set is empty at process start, never
\* loses an element, and holds only questions for which a query of this run
\* returned successfully.
C19_SeenSetGrowsFromAnswers ==
    /\ seen = {}
    /\ [][seen \subseteq seen']_vars
    /\ [](\A x \in seen :
            \E i \in DOMAIN sent : sent[i].q = x /\ sent[i].outcome = "ok")

\* second cycle of a continuous run: one question answered and remembered,
\* another one failed and left out
C19_Witness ==
    /\ ~once /\ cycle = 2 /\ seen # {}
    /\ \E i \in DOMAIN sent :
         sent[i].outcome \in Failures /\ sent[i].q \notin seen

\* C20: in single-shot mode the continuous orchestrator never sleeps and
\* never begins a second cycle; once the questions of its one cycle are
\* exhausted the process ends, and by then every detected question was sent
\* to the answer client, whether the queries succeeded or failed.
C20_OnceOneCycleNoSleep ==
    /\ [](once => cycle = 1 /\ pc # "sleep")
    /\ []((once /\ pc = "done") => \A x \in Detected : SentIn(x, 1))
    /\ [][(once /\ pc = "for" /\ queue = <<>>) =>
                pc' \in {"done", "interrupted"}]_vars

\* a single-shot run that ended after a cycle with a failed and a successful
\* query
C20_Witness ==
    /\ once /\ pc = "done" /\ cycle = 1
    /\ \E i \in DOMAIN sent : sent[i].outcome \in Failures
    /\ \E i \in DOMAIN sent : sent[i].outcome = "ok"

(***************************************************************************)
\* C18: in the GUI variant the button state, the answer box, the clipboard
\* and the dialogs change only in a step of the UI loop that runs the oldest
\* callback handed to it; a step of a worker thread leaves them as they are.
C18_PresentationOnlyByUiLoop ==
    [][Presentation' # Presentation =>
          /\ uiQueue # <<>> /\ uiQueue' = Tail(uiQueue)
          /\ workers' = workers]_vars

\* a worker ran to its end and the UI loop has shown all it handed over
C18_Witness ==
    /\ Len(workers) = 1 /\ workers[1].pc = "done" /\ uiQueue = <<>>
    /\ button = "normal" /\ answerBox = <<"formatted">>
    /\ clipboard = <<"formatted">> /\ dialog = "info"

\* the callbacks a step has appended to the UI loop's queue
Added ==
    IF Len(uiQueue') > Len(uiQueue)
    THEN SubSeq(uiQueue', Len(uiQueue) + 1, Len(uiQueue'))
    ELSE <<>>

HasOp(q, w, ops) == \E i \in DOMAIN q : q[i].w = w /\ q[i].op \in ops

FormattedOps == {"insert_answer", "clipboard_append"}

\* C22: every run of the GUI worker, ending with an answer or with a failure
\* of the capture, the OCR or the query, hands over the button's enable as
\* its last callback, after its own disable (its first one); a finished
\* worker hands over nothing more; the callbacks that write the formatted
\* answer to the answer box or the clipboard are handed over only by the
\* step that ends a worker successfully, never together with the error
\* dialog; and once every worker has finished and the UI loop has run all
\* callbacks, the button is enabled.
C22_EnableLastNoAnswerOnFailure ==
    /\ [][\A w \in DOMAIN workers :
            /\ (workers[w].pc # "done" /\ workers'[w].pc = "done") =>
                  /\ Added # <<>>
                  /\ Added[Len(Added)] = [op |-> "enable", w |-> w]
                  /\ HasOp(Added, w, {"showerror"}) => ~HasOp(Added, w, FormattedOps)
            /\ (workers[w].pc = "start" /\ workers'[w].pc # "start") =>
                  /\ ~HasOp(uiQueue, w, {"disable", "enable"})
                  /\ Added # <<>> /\ Added[1] = [op |-> "disable", w |-> w]
            /\ HasOp(Added, w, FormattedOps) =>
                  /\ workers[w].pc = "query" /\ workers'[w].pc = "done"
                  /\ ~HasOp(Added, w, {"showerror"})
            /\ workers[w].pc = "done" =>
                  /\ workers'[w] = workers[w]
                  /\ ~HasOp(Added, w, {"disable", "enable", "showerror"} \cup FormattedOps)
       ]_vars
    /\ [](\A i, j \in DOMAIN uiQueue :
            (i < j /\ uiQueue[i].w = uiQueue[j].w /\ uiQueue[i].op = "enable")
               => uiQueue[j].op # "disable")
    /\ []((workers # <<>> /\ InFlight = {} /\ uiQueue = <<>>) => button = "normal")

\* a worker that failed, all of its callbacks run: the error dialog is up, the
\* button is enabled, no formatted answer in the box or on the clipboard
C22_Witness ==
    /\ Len(workers) = 1 /\ workers[1].pc = "done" /\ uiQueue = <<>>
    /\ dialog = "error" /\ button = "normal"
    /\ "formatted" \notin SeqToSet(answerBox) /\ clipboard = <<>>
    /\ "ocr" \in SeqToSet(answerBox)

(***************************************************************************)
\* C5: at most one background worker is in flight at any time.
C5_AtMostOneWorker == Cardinality(InFlight) <= 1

(***************************************************************************)
(* Fallback-chain extractor: extract_question, nested in                   *)
(* run_ocr_and_answer of screen_qna_gui.py                                 *)
(***************************************************************************)
ArQMark == "ar_qmark"                     \* U+061F, the Arabic question mark

\* index of the first character c at or after position p, 0 when there is none
RECURSIVE NextOf(_, _, _)
NextOf(s, p, c) ==
    IF p > Len(s) THEN 0
    ELSE IF s[p] = c THEN p ELSE NextOf(s, p + 1, c)

\* re.search(r"[^c]{2,}c", s) tried from start position p on: the matched
\* substring, <<>> when nothing matches.  At a start position the greedy run
\* of non-c characters ends at the first c; the match needs that run to be at
\* least 2 long.
RECURSIVE SearchFrom(_, _, _)
SearchFrom(s, p, c) ==
    IF p > Len(s) THEN <<>>
    ELSE LET j == NextOf(s, p, c)
         IN  IF j # 0 /\ j - p >= 2 THEN SubSeq(s, p, j)
             ELSE SearchFrom(s, p + 1, c)

\* faulty variant: the Latin pattern tried before the Arabic one
extract_questionLatinFirst(txt) ==
    LET m_ar == SearchFrom(txt, 1, ArQMark)
        m_en == SearchFrom(txt, 1, "?")
    IN  IF m_en # <<>> THEN Strip(m_en)
        ELSE IF m_ar # <<>> THEN Strip(m_ar)
        ELSE Strip(txt)

extract_question(txt) ==
    LET m_ar == SearchFrom(txt, 1, ArQMark)
        m_en == SearchFrom(txt, 1, "?")
    IN  IF m_ar # <<>> THEN Strip(m_ar)
        ELSE IF m_en # <<>> THEN Strip(m_en)
        ELSE Strip(txt)

MaxTextLen == 4     \* length of a recognized text given to extract_question

SeqsUpTo(S, n) == UNION {[1..k -> S] : k \in 0..n}

\* a letter, a blank, the two question marks
QuestionChars == {"a", " ", "?", ArQMark}

QuestionInit ==
    /\ fIn \in SeqsUpTo(QuestionChars, MaxTextLen)
    /\ fArg = <<>> /\ fOut = <<>> /\ fPc = "extract_question"
    /\ LoopIdle /\ AskIdle /\ apiKey = "set" /\ lib = "v1"
    /\ SelIdle /\ GuiIdle /\ SnapIdle

ExtractQuestion ==
    /\ fPc = "extract_question"
    /\ fOut' = extract_question(fIn)
    /\ fPc' = "done"
    /\ UNCHANGED <<fIn, fArg>>
    /\ UNCHANGED <<loopVars, askVars, selVars, guiVars, snapVars>>

QuestionNext == ExtractQuestion

QuestionSpec == QuestionInit /\ [][QuestionNext]_vars

\* C12 as the spec states it: for every non-empty recognized text, text made
\* only of whitespace included, the fallback-chain extractor returns a
\* non-empty string.
C12_NonEmptyInNonEmptyOut ==
    (fPc = "done" /\ fIn # <<>>) => fOut # <<>>

\* the positions of terminator c that end a match of [^c]{2,}c: c preceded
\* by at least two characters other than c
Ends(t, c) ==
    {j \in 3..Len(t) : t[j] = c /\ t[j - 1] # c /\ t[j - 2] # c}

\* the sentence ending at position j: from just after the previous c (or
\* from the start of the text) to j
SentenceAt(t, c, j) ==
    LET prev == {k \in 1..(j - 1) : t[k] = c}
        from == IF prev = {} THEN 1
                ELSE (CHOOSE k \in prev : \A m \in prev : m <= k) + 1
    IN  SubSeq(t, from, j)

FirstSentence(t, c) ==
    SentenceAt(t, c, CHOOSE j \in Ends(t, c) : \A m \in Ends(t, c) : j <= m)

\* C15: the extractor's priority is Arabic-terminated sentence, then
\* Latin-terminated sentence, then the whole trimmed text: with an
\* Arabic-terminated sentence in the text the result is the first one,
\* trimmed, even when a Latin question occurs earlier; otherwise the first
\* Latin-terminated sentence, trimmed; otherwise the trimmed text.
C15_ExtractorPriority ==
    fPc = "done" =>
        fOut = IF Ends(fIn, ArQMark) # {}
                    THEN Strip(FirstSentence(fIn, ArQMark))
               ELSE IF Ends(fIn, "?") # {}
                    THEN Strip(FirstSentence(fIn, "?"))
               ELSE Strip(fIn)

\* a text with a Latin question ahead of an Arabic-terminated sentence
C15_Witness ==
    /\ fPc = "done"
    /\ Ends(fIn, ArQMark) # {} /\ Ends(fIn, "?") # {}
    /\ \E j \in Ends(fIn, "?") : \A k \in Ends(fIn, ArQMark) : j < k
    /\ fOut[Len(fOut)] = ArQMark

(***************************************************************************)
(* Latin multi-match extractor, extract_questions of screen_qna.py, on     *)
(* texts made of well-formed question sentences                            *)
(***************************************************************************)
MaxSentences == 3   \* sentences in one text given to extract_questions

\* well-formed sentences of minimal length: an uppercase letter, three more
\* characters other than "?", then "?"
Inner == [1..3 -> {"h", " "}] \cup {<<"h", "A", "h">>}
Sentences == {<<u>> \o in \o <<"?">> : u \in {"W", "A"}, in \in Inner}

\* what stands between two sentences of a text
Separators == {<<>>, <<"\n">>}

RECURSIVE Join(_, _)
Join(ss, sep) ==
    IF ss = <<>> THEN <<>>
    ELSE IF Len(ss) = 1 THEN Head(ss)
    ELSE Head(ss) \o sep \o Join(Tail(ss), sep)

ExtractInit ==
    /\ fArg \in SeqsUpTo(Sentences, MaxSentences)
    /\ fIn \in {Join(fArg, sep) : sep \in Separators}
    /\ fOut = <<>> /\ fPc = "extract_questions"
    /\ LoopIdle /\ AskIdle /\ apiKey = "set" /\ lib = "v1"
    /\ SelIdle /\ GuiIdle /\ SnapIdle

ExtractQuestions ==
    /\ fPc = "extract_questions"
    /\ fOut' = extract_questions(fIn)
    /\ fPc' = "done"
    /\ UNCHANGED <<fIn, fArg>>
    /\ UNCHANGED <<loopVars, askVars, selVars, guiVars, snapVars>>

ExtractNext == ExtractQuestions

ExtractSpec == ExtractInit /\ [][ExtractNext]_vars

\* position of the first occurrence of x in the sequence s
FirstAt(s, x) == CHOOSE i \in DOMAIN s : s[i] = x /\ \A k \in 1..(i - 1) : s[k] # x

\* C14: for a text consisting of well-formed Latin question sentences,
\* extract_questions returns exactly the distinct sentences, each exactly
\* once, in the order of their first appearance in the text.
C14_DistinctInOrder ==
    fPc = "done" =>
        /\ SeqToSet(fOut) = SeqToSet(fArg)
        /\ \A i, j \in DOMAIN fOut : i < j =>
              /\ fOut[i] # fOut[j]
              /\ FirstAt(fArg, fOut[i]) < FirstAt(fArg, fOut[j])

\* a text in which the first sentence repeats verbatim after another one
C14_Witness ==
    /\ fPc = "done"
    /\ Len(fArg) = 3 /\ fArg[1] = fArg[3] /\ fArg[1] # fArg[2]
    /\ fOut = <<fArg[1], fArg[2]>>

(***************************************************************************)
(* Answer formatter: run_ocr_and_answer of screen_qna_gui.py, lines        *)
(* 199-208                                                                 *)
(***************************************************************************)
\* "Answer: " and its Arabic counterpart, both ending in a colon and a blank
LatinPrefix == <<"A", "n", "s", "w", "e", "r", ":", " ">>
ArabicPrefix ==
    <<"ar_alef", "ar_lam", "ar_alef_hamza", "ar_jeem", "ar_alef", "ar_beh",
      "ar_teh_marbuta", ":", " ">>

\* "\u0600" <= ch <= "\u06FF": Arabic letters, the Arabic question mark,
\* the Arabic-Indic digits and the Arabic percent sign
IsArabic(ch) ==
    \/ ch \in {"ar_b", ArQMark, "ar_4", "ar_pct"}
    \/ ch \in SeqToSet(ArabicPrefix) \ {":", " "}

IsDigit(c) == c \in {"4", "ar_4"}         \* \d and U+0660..U+0669
IsPercent(c) == c \in {"%", "ar_pct"}     \* "%" and U+066A

\* the characters an answer is made of
AnswerChars == {"a", "4", "ar_4", "%", "ar_pct", " ", "\n"}

Digits == {c \in AnswerChars : IsDigit(c)}
Spaces == {c \in AnswerChars : IsSpace(c)}      \* \s
NotNewline == AnswerChars \ {"\n"}              \* what "." matches

\* length of the run of characters of the set S that starts at position p
RECURSIVE RunLen(_, _, _)
RunLen(s, p, S) ==
    IF p > Len(s) \/ s[p] \notin S THEN 0 ELSE 1 + RunLen(s, p + 1, S)

\* re.match(r"^(digits+ percent?)\s+(.*)", answer): the two groups, <<>> when
\* the pattern does not match.  The digits and the whitespace are taken
\* greedily and nothing is gained by giving any back; (.*) stops at the
\* first newline.
NumericMatch(answer) ==
    LET d == RunLen(answer, 1, Digits)
        t == IF d < Len(answer) /\ IsPercent(answer[d + 1]) THEN d + 1 ELSE d
        w == RunLen(answer, t + 1, Spaces)
        b == RunLen(answer, t + w + 1, NotNewline)
    IN  IF d >= 1 /\ w >= 1
        THEN <<SubSeq(answer, 1, t), SubSeq(answer, t + w + 1, t + w + b)>>
        ELSE <<>>

\* faulty variant: the script of the answer picks the prefix
LanguageSourceAnswer(txt, answer) == answer

\* the string whose characters decide the prefix: `for ch in text`
LanguageSource(txt, answer) == txt

Format(txt, answer) ==
    LET src == LanguageSource(txt, answer)
        is_arabic == \E i \in DOMAIN src : IsArabic(src[i])
        prefix == IF is_arabic THEN ArabicPrefix ELSE LatinPrefix
        m == NumericMatch(answer)
        num_part == IF m # <<>> THEN m[1] ELSE <<>>
        ans_main == IF m # <<>> THEN m[2] ELSE answer
    IN  Strip(num_part \o <<" ">> \o prefix \o ans_main)

MaxSourceLen == 1   \* length of the recognized text given to the formatter
MaxAnswerLen == 5   \* length of the raw answer given to the formatter

SourceChars == {"a", "ar_b"}

\* the answer clients return message.content.strip()
RawAnswers == {a \in SeqsUpTo(AnswerChars, MaxAnswerLen) : Strip(a) = a}

FormatInit ==
    /\ fIn \in SeqsUpTo(SourceChars, MaxSourceLen)
    /\ fArg \in RawAnswers
    /\ fOut = <<>> /\ fPc = "format"
    /\ LoopIdle /\ AskIdle /\ apiKey = "set" /\ lib = "v1"
    /\ SelIdle /\ GuiIdle /\ SnapIdle

FormatAnswer ==
    /\ fPc = "format"
    /\ fOut' = Format(fIn, fArg)
    /\ fPc' = "done"
    /\ UNCHANGED <<fIn, fArg>>
    /\ UNCHANGED <<loopVars, askVars, selVars, guiVars, snapVars>>

FormatNext == FormatAnswer

FormatSpec == FormatInit /\ [][FormatNext]_vars

\* s contains p as a run of consecutive characters
Contains(s, p) ==
    \E i \in 0..(Len(s) - Len(p)) : SubSeq(s, i + 1, i + Len(p)) = p

HasArabic(t) == \E i \in DOMAIN t : IsArabic(t[i])

\* C16: the prefix in the formatted string is the Arabic one iff the source
\* text has a character of the Arabic block, and the Latin one otherwise,
\* whatever the script of the answer.
C16_PrefixFromSourceOnly ==
    fPc = "done" =>
        /\ Contains(fOut, RStrip(ArabicPrefix)) <=> HasArabic(fIn)
        /\ Contains(fOut, RStrip(LatinPrefix)) <=> ~HasArabic(fIn)

\* a Latin source with an answer in Arabic-Indic digits, and the converse
C16_Witness ==
    /\ fPc = "done"
    /\ \/ ~HasArabic(fIn) /\ HasArabic(fArg) /\ Contains(fOut, LatinPrefix)
       \/ HasArabic(fIn) /\ ~HasArabic(fArg) /\ fArg # <<>>
            /\ Contains(fOut, ArabicPrefix)

\* the remainder of the answer after its first n characters, without the
\* whitespace that separated it from them
Remainder(answer, n) == LStrip(SubSeq(answer, n + 1, Len(answer)))

\* C17 as the spec states it, read in the way most favourable to the code
\* (a leading numeric token counts only when whitespace follows it): an
\* answer with a leading numeric token is formatted as token, one space,
\* prefix, remainder of the answer; any other answer as prefix and the whole
\* answer, trailing whitespace aside.
C17_TokenPrefixRemainder ==
    fPc = "done" =>
        LET prefix == IF HasArabic(fIn) THEN ArabicPrefix ELSE LatinPrefix
            d == RunLen(fArg, 1, Digits)
            n == IF d < Len(fArg) /\ IsPercent(fArg[d + 1]) THEN d + 1 ELSE d
        IN  IF d >= 1 /\ n < Len(fArg) /\ IsSpace(fArg[n + 1])
            THEN fOut = SubSeq(fArg, 1, n) \o <<" ">> \o prefix
                            \o Remainder(fArg, n)
            ELSE fOut = RStrip(prefix \o fArg)

(***************************************************************************)
(* Snap orchestrator: main() of screen_qna_snap.py                         *)
(***************************************************************************)
MaxShots == 2       \* selections of one snap session (first shot and retakes)

\* what pytesseract.image_to_string may return for the grabbed region
SnapTexts ==
    { <<>>, <<" ", "\n">>, <<"a", "b", "\n">>, <<"a", "a", "?", "\n">>,
      <<"a", "a", "?", " ", "a", "\n">> }

\* args = parser.parse_args(); load_dotenv(); the loop is entered
SnapInit ==
    /\ snapPc = "select"
    /\ snapArgs \in [popup : BOOLEAN, show_text : BOOLEAN]
    /\ snapText = <<>> /\ snapLog = <<>> /\ shots = 1
    /\ apiKey \in ApiKeys /\ lib \in Libs
    /\ LoopIdle /\ AskIdle /\ SelIdle /\ GuiIdle /\ FnIdle

SnapGoes(to, events) ==
    /\ snapPc' = to
    /\ snapLog' = snapLog \o events

\* bbox = select_region(); if bbox is None: print("Selection cancelled."); break
SnapSelect ==
    /\ snapPc = "select"
    /\ \E d \in GuiSelections :
         IF SelectionResult(d) = <<>>
         THEN SnapGoes("exit", <<"cancelled">>)
         ELSE SnapGoes("grab", <<"selected">>)
    /\ UNCHANGED <<snapArgs, snapText, shots>>
    /\ UNCHANGED <<loopVars, askVars, selVars, guiVars, fnVars>>

\* img = ImageGrab.grab(bbox=bbox): returns, or raises out of main()
SnapGrab ==
    /\ snapPc = "grab"
    /\ \/ SnapGoes("ocr", <<"grab">>)
       \/ SnapGoes("crashed", <<"grab">>)
    /\ UNCHANGED <<snapArgs, snapText, shots>>
    /\ UNCHANGED <<loopVars, askVars, selVars, guiVars, fnVars>>

\* the string handed to ask_ai: the recognized text itself (line 146)
SnapQuestion(txt) == txt

\* text = pytesseract.image_to_string(...).strip(), or the call raises out of
\* main(); if not text: "No text detected."; else print the text on
\* --show-text and enter ask_ai(text, model=args.model)
SnapOcr ==
    /\ snapPc = "ocr"
    /\ \/ /\ SnapGoes("crashed", <<"ocr">>)
          /\ UNCHANGED <<snapText, askVars>>
       \/ \E t \in SnapTexts :
            /\ snapText' = Strip(t)
            /\ IF Strip(t) = <<>>
               THEN /\ SnapGoes("choice",
                                <<"ocr">> \o
                                (IF snapArgs.popup THEN <<"popup_info">> ELSE <<>>)
                                \o <<"print_no_text">>)
                    /\ UNCHANGED askVars
               ELSE /\ SnapGoes("ask",
                                <<"ocr">> \o
                                (IF snapArgs.show_text THEN <<"print_text">> ELSE <<>>)
                                \o <<"ask">>)
                    /\ AskEnter("snap", SnapQuestion(Strip(t)))
    /\ UNCHANGED <<snapArgs, shots>>
    /\ UNCHANGED <<loopVars, selVars, guiVars, fnVars>>

\* the body of ask_ai runs
SnapAskStep ==
    /\ snapPc = "ask"
    /\ AskStep
    /\ UNCHANGED <<loopVars, selVars, guiVars, snapVars, fnVars>>

\* ask_ai returned: print("....."); print(answer); showinfo on --popup
SnapAnswer ==
    /\ snapPc = "ask" /\ askPc = "returned"
    /\ SnapGoes("choice",
                <<"print_answer">> \o
                (IF snapArgs.popup THEN <<"popup_info">> ELSE <<>>))
    /\ askPc' = "idle"
    /\ UNCHANGED <<askClient, apiKey, lib, prompt, requests, askResult, calls>>
    /\ UNCHANGED <<snapArgs, snapText, shots>>
    /\ UNCHANGED <<loopVars, selVars, guiVars, fnVars>>

\* except Exception as e: showerror on --popup; print("Error:", e)
SnapError ==
    /\ snapPc = "ask" /\ askPc = "raised"
    /\ SnapGoes("choice",
                (IF snapArgs.popup THEN <<"popup_error">> ELSE <<>>)
                \o <<"print_error">>)
    /\ askPc' = "idle"
    /\ UNCHANGED <<askClient, apiKey, lib, prompt, requests, askResult, calls>>
    /\ UNCHANGED <<snapArgs, snapText, shots>>
    /\ UNCHANGED <<loopVars, selVars, guiVars, fnVars>>

\* choice = input("(1) Retake screenshot  (2) Exit: ").strip();
\* if choice != "1": break
SnapChoice ==
    /\ snapPc = "choice"
    /\ \/ /\ shots < MaxShots
          /\ shots' = shots + 1
          /\ SnapGoes("select", <<"retake">>)
       \/ /\ SnapGoes("exit", <<>>)
          /\ UNCHANGED shots
    /\ UNCHANGED <<snapArgs, snapText>>
    /\ UNCHANGED <<loopVars, askVars, selVars, guiVars, fnVars>>

SnapNext ==
    \/ SnapSelect \/ SnapGrab \/ SnapOcr \/ SnapAskStep \/ SnapAnswer
    \/ SnapError \/ SnapChoice

SnapSpec == SnapInit /\ [][SnapNext]_vars

\* C13 as the spec states it, for the snap flow: the string sent to the
\* answer client is the result of the fallback-chain extractor applied to
\* the recognized text, not the recognized text itself.
C13_SentIsExtracted ==
    (snapPc = "ask" /\ askClient = "snap") => prompt = extract_question(snapText)

(***************************************************************************)
(* The two interactive single-shot flows, GUI and snap                     *)
(***************************************************************************)
InteractiveInit == GuiInit \/ SnapInit

InteractiveNext == GuiNext \/ SnapNext

InteractiveSpec == InteractiveInit /\ [][InteractiveNext]_vars

\* the callbacks a worker of a cancelled attempt has handed to the UI loop
QueuedFor(a) ==
    {i \in DOMAIN uiQueue : workers[uiQueue[i].w].attempt = a}

\* C11: a cancelled selection is followed by no pipeline action for that
\* attempt.  GUI: no worker thread ever belongs to a cancelled attempt, so
\* nothing is captured, recognized, asked or handed to the UI loop for it,
\* and the step that cancels leaves the workers, the callback queue and the
\* presentation state as they were.  Snap: "cancelled" is the last event of
\* the session and the process has ended.
C11_CancelledAttemptDoesNothing ==
    /\ [](\A a \in cancelled :
            /\ \A w \in DOMAIN workers : workers[w].attempt # a
            /\ QueuedFor(a) = {})
    /\ [][cancelled' # cancelled =>
            /\ workers' = workers /\ uiQueue' = uiQueue
            /\ Presentation' = Presentation]_vars
    /\ [](\A i \in DOMAIN snapLog :
            snapLog[i] = "cancelled" => i = Len(snapLog) /\ snapPc = "exit")

\* GUI: a cancelled attempt after which another attempt ran to its end;
\* snap: a retake that was cancelled after a first shot was answered
C11_Witness ==
    \/ /\ 1 \in cancelled /\ Len(workers) = 1 /\ workers[1].attempt = 2
       /\ workers[1].pc = "done" /\ uiQueue = <<>>
    \/ /\ Len(snapLog) > 1 /\ snapLog[Len(snapLog)] = "cancelled"
       /\ \E i \in DOMAIN snapLog : snapLog[i] = "print_answer"

====
